---- MODULE Spec2Model ----
(***************************************************************************)
(* mcp-mem0: the MCP server (request router / response formatter) and the *)
(* Mem0 client service (remote API adapter).                              *)
(*                                                                         *)
(* A JavaScript value that may be undefined is an "option": <<>> when it   *)
(* is undefined (or the key is absent), <<v>> when it is v.  A text is the  *)
(* sequence of the fragments a template literal concatenates.              *)
(*                                                                         *)
(* Spec is the server driven by a client that waits for each response      *)
(* before it sends its next request; Reqs are the request slots of the     *)
(* transport, of which that client uses one.                               *)
(***************************************************************************)
EXTENDS Integers, Sequences, FiniteSets, TLC

VARIABLES env, mem0Client, mcpServer, pc, request, calls, frame, result, response

vars == <<env, mem0Client, mcpServer, pc, request, calls, frame, result, response>>

(***************************************************************************)
(* Bounds of the model.                                                    *)
(***************************************************************************)
\* longest memory_ids list of a memory_delete request
MaxIds == 3
\* longest result list the remote search answers with
MaxResults == 3

(***************************************************************************)
(* JavaScript values.                                                      *)
(***************************************************************************)
None == <<>>

Some(v) == <<v>>

IsSome(o) == o # <<>>

Get(o) == o[1]

\* truthiness of an optional string: undefined and '' are falsy
TruthyStr(o) == IsSome(o) /\ Get(o) # ""

\* truthiness of an optional number: undefined and 0 are falsy
TruthyNum(o) == IsSome(o) /\ Get(o) # 0

\* truthiness of an optional object or array: only undefined is falsy
TruthyObj(o) == IsSome(o)

\* a || b on optional strings
OrStr(a, b) == IF TruthyStr(a) THEN a ELSE b

\* a || b on optional numbers
OrNum(a, b) == IF TruthyNum(a) THEN a ELSE b

Min(a, b) == IF a <= b THEN a ELSE b

\* all sequences over S of length at most n
SeqsUpTo(S, n) == UNION {[1..k -> S] : k \in 0..n}

\* the sequences of SeqsUpTo(S, n) that repeat no element
DistinctSeqsUpTo(S, n) == {s \in SeqsUpTo(S, n) : \A i, j \in 1..Len(s) : i # j => s[i] # s[j]}

\* a thrown value: an Error with a message, or any other value with its String() form
Error(m) == [isError |-> TRUE, message |-> m]

NonError(m) == [isError |-> FALSE, message |-> m]

(***************************************************************************)
(* Process configuration and construction of the two singletons.           *)
(***************************************************************************)
FallbackUserId == "mcp-mem0-user"

EnvValues == {None, Some(""), Some("env-value")}

Envs == [MEM0_API_KEY : EnvValues, MEM0_USER_ID : EnvValues]

NotConstructed == [constructed |-> FALSE, defaultUserId |-> ""]

\* variant of the constructor that does not check the credential
Mem0ClientServiceNewUnchecked(e) ==
    [constructed |-> TRUE,
     defaultUserId |-> IF e.MEM0_USER_ID # <<>> /\ e.MEM0_USER_ID # <<"">>
                       THEN e.MEM0_USER_ID[1] ELSE "mcp-mem0-user",
     client |-> <<[apiKey |-> IF e.MEM0_API_KEY # <<>> THEN e.MEM0_API_KEY[1] ELSE ""]>>,
     thrown |-> <<>>]

\* Mem0ClientService constructor: throws without a credential, before it has
\* created the vendor client; `thrown` is what `new Mem0ClientService()` threw
Mem0ClientServiceNew(e) ==
    LET apiKey == OrStr(e.MEM0_API_KEY, Some(""))
    IN  IF ~TruthyStr(apiKey)
        THEN [constructed |-> FALSE, defaultUserId |-> "", client |-> None,
              thrown |-> Some(Error("MEM0_API_KEY environment variable is required"))]
        ELSE [constructed |-> TRUE,
              defaultUserId |-> Get(OrStr(e.MEM0_USER_ID, Some(FallbackUserId))),
              client |-> Some([apiKey |-> Get(apiKey)]),
              thrown |-> None]

\* MCPServerService constructor; the module imports mem0Client first, so a
\* failed adapter construction leaves no server either
MCPServerServiceNew(e, client) ==
    IF ~client.constructed
    THEN NotConstructed
    ELSE [constructed |-> TRUE,
          defaultUserId |-> Get(OrStr(e.MEM0_USER_ID, Some(FallbackUserId)))]

\* variant of getUserId in which the default wins: this.defaultUserId || userId
getUserIdDefaultFirst(userId) == Get(OrStr(Some(mcpServer.defaultUserId), userId))

\* MCPServerService.getUserId
getUserId(userId) == Get(OrStr(userId, Some(mcpServer.defaultUserId)))

\* Mem0ClientService.getUserId
clientGetUserId(userId) == Get(OrStr(userId, Some(mem0Client.defaultUserId)))

(***************************************************************************)
(* Data the requests and the remote service carry.                         *)
(***************************************************************************)
MemoryIds == {"A", "B", "C"}

UserIds == {None, Some(""), Some("alice")}

NoMetadata == [category |-> None, importance |-> None, tags |-> None, source |-> None]

\* MemoryMetadata values of a request (tags is an array of strings)
MetadataValues ==
    { None,
      Some(NoMetadata),
      Some([category |-> Some("frontend"), importance |-> Some(8),
            tags |-> Some(<<"react", "hooks">>), source |-> Some("docs")]),
      Some([NoMetadata EXCEPT !.tags = Some(<<>>)]) }

\* SearchFilters values of a request
NoFilters == [category |-> None, tags |-> None, importance_min |-> None, date_range |-> None]

FilterValues ==
    { None,
      Some(NoFilters),
      Some([NoFilters EXCEPT !.tags = Some(<<>>)]),
      Some([NoFilters EXCEPT !.category = Some(""), !.importance_min = Some(0)]),
      Some([NoFilters EXCEPT !.importance_min = Some(7)]),
      Some([category |-> Some("frontend"), tags |-> Some(<<"react">>),
            importance_min |-> Some(7),
            date_range |-> Some([start |-> "2024-01-01", end |-> "2024-12-31"])]) }

LimitValues == {None, Some(0), Some(5), Some(150)}

SortValues == {None, Some("relevance"), Some("date"), Some("importance")}

\* MemoryUpdateData values of a request
UpdateValues ==
    { None,
      Some([content |-> None, metadata |-> None]),
      Some([content |-> Some("new text"), metadata |-> None]),
      Some([content |-> Some(""), metadata |-> Some(NoMetadata)]),
      Some([content |-> Some("new text"),
            metadata |-> Some([NoMetadata EXCEPT !.importance = Some(9)])]) }

\* values of the confirm argument, by JavaScript type and truthiness
ConfirmValues ==
    { [type |-> "undefined", truthy |-> FALSE],
      [type |-> "boolean", truthy |-> FALSE],
      [type |-> "boolean", truthy |-> TRUE],
      [type |-> "string", truthy |-> TRUE],
      [type |-> "string", truthy |-> FALSE] }

\* metadata as the remote service returns it (tags need not be an array)
ResultMetadata(category, importance, tags, source) ==
    [category |-> category, importance |-> importance, tags |-> tags, source |-> source]

TagsArray(items) == [array |-> TRUE, items |-> items]

TagsNotArray == [array |-> FALSE, items |-> <<>>]

\* MemoryResult records the remote search may return; created_at is a day number
MemoryPool ==
    { [id |-> "m1", memory |-> "use hooks", score |-> 9, created_at |-> 2,
       metadata |-> Some(ResultMetadata(Some("frontend"), Some(3),
                                       Some(TagsArray(<<"react", "hooks">>)), Some("docs")))],
      [id |-> "m2", memory |-> "pin versions", score |-> 8, created_at |-> 1,
       metadata |-> Some(ResultMetadata(None, Some(9), None, None))],
      [id |-> "m3", memory |-> "index joins", score |-> 7, created_at |-> 3,
       metadata |-> Some(ResultMetadata(None, Some(5), None, None))],
      [id |-> "m4", memory |-> "plain note", score |-> 6, created_at |-> 5,
       metadata |-> None],
      [id |-> "m5", memory |-> "odd tags", score |-> 5, created_at |-> 4,
       metadata |-> Some(ResultMetadata(None, None, Some(TagsNotArray), None))],
      [id |-> "m6", memory |-> "cache keys", score |-> 4, created_at |-> 6,
       metadata |-> Some(ResultMetadata(Some("backend"), Some(5), None, None))] }

(***************************************************************************)
(* Requests.                                                               *)
(***************************************************************************)
NoArgs ==
    [content |-> None, userId |-> None, metadata |-> None,
     query |-> None, filters |-> None, limit |-> None, sort |-> None,
     memory_id |-> None, memory_ids |-> None, updates |-> None,
     confirm |-> [type |-> "undefined", truthy |-> FALSE]]

AddArgs ==
    {[NoArgs EXCEPT !.content = Some("note"), !.userId = u, !.metadata = m] :
        u \in UserIds, m \in MetadataValues}

SearchArgs ==
    {[NoArgs EXCEPT !.query = Some("hooks"), !.userId = x[1], !.filters = x[2],
                    !.limit = x[3], !.sort = x[4]] :
        x \in UserIds \X FilterValues \X LimitValues \X SortValues}

UpdateArgs ==
    {[NoArgs EXCEPT !.memory_id = Some("A"), !.userId = u, !.updates = d] :
        u \in UserIds, d \in UpdateValues}

DeleteArgs ==
    {[NoArgs EXCEPT !.memory_id = x[1], !.memory_ids = x[2], !.userId = x[3],
                    !.confirm = x[4]] :
        x \in {None, Some(""), Some("A")}
              \X ({None} \cup {Some(s) : s \in DistinctSeqsUpTo(MemoryIds, MaxIds)})
              \X UserIds \X ConfirmValues}

ToolNames == {"memory_add", "memory_search", "memory_update", "memory_delete"}

UnknownToolName == "memory_purge"

\* the CallTool requests a client may send
Requests ==
    {[name |-> "memory_add", arguments |-> Some(a)] : a \in AddArgs}
    \cup {[name |-> "memory_search", arguments |-> Some(a)] : a \in SearchArgs}
    \cup {[name |-> "memory_update", arguments |-> Some(a)] : a \in UpdateArgs}
    \cup {[name |-> "memory_delete", arguments |-> Some(a)] : a \in DeleteArgs}
    \cup {[name |-> n, arguments |-> None] : n \in ToolNames \cup {UnknownToolName}}
    \cup {[name |-> UnknownToolName, arguments |-> Some(NoArgs)]}

NoRequest == [name |-> "", arguments |-> None]

(***************************************************************************)
(* The remote memory service: every call settles with an outcome the       *)
(* adapter does not control.                                               *)
(***************************************************************************)
Resolved(v) == [settled |-> "resolved", value |-> v]

Rejected(e) == [settled |-> "rejected", error |-> e]

Rejections == {Rejected(Error("Memory not found")), Rejected(NonError("socket hang up"))}

NotAnArray == [isArray |-> FALSE, items |-> <<>>]

Array(items) == [isArray |-> TRUE, items |-> items]

\* a response object that refers to itself: {id: 'mem-2', self: <the object>}
CircularResponse == [id |-> Some("mem-2"), self |-> "[Circular]"]

\* the outcomes of a remote call, by operation
Outcomes(op) ==
    Rejections \cup
    CASE op = "add" -> {Resolved([id |-> Some("mem-1")]), Resolved([id |-> None]),
                        Resolved(CircularResponse)}
      [] op = "search" ->
            {Resolved(NotAnArray)}
            \cup {Resolved(Array(s)) : s \in DistinctSeqsUpTo(MemoryPool, MaxResults)}
      [] OTHER -> {Resolved([ok |-> TRUE])}

\* variant that reports the thrown value itself: String(error)
ErrorMessageString(error) == error.message

\* error instanceof Error ? error.message : 'Unknown error'
ErrorMessage(error) == IF error.isError THEN error.message ELSE "Unknown error"

(***************************************************************************)
(* Mem0ClientService: each operation up to its await, and from the         *)
(* settled await to its return.                                            *)
(***************************************************************************)
\* variant of addMemoryWithMetadata that sets options.metadata without the
\* `if (metadata)` guard
addMemoryWithMetadataCallAlwaysMetadata(content, userId, metadata) ==
    LET m == IF IsSome(metadata) THEN Get(metadata) ELSE NoMetadata
    IN  [op |-> "add",
         messages |-> <<[role |-> "system", content |-> "Memory storage system"],
                        [role |-> "user", content |-> content]>>,
         options |->
            [user_id |-> clientGetUserId(userId),
             categories |-> IF TruthyStr(m.category) THEN Some(<<Get(m.category)>>) ELSE None,
             filters |-> IF TruthyObj(m.tags) THEN Some([tags |-> Get(m.tags)]) ELSE None,
             metadata |-> Some(m)]]

\* addMemoryWithMetadata: the client.add call it issues
addMemoryWithMetadataCall(content, userId, metadata) ==
    LET m == IF IsSome(metadata) THEN Get(metadata) ELSE NoMetadata
    IN  [op |-> "add",
         messages |-> <<[role |-> "system", content |-> "Memory storage system"],
                        [role |-> "user", content |-> content]>>,
         options |->
            [user_id |-> clientGetUserId(userId),
             categories |-> IF TruthyObj(metadata) /\ TruthyStr(m.category)
                            THEN Some(<<Get(m.category)>>) ELSE None,
             filters |-> IF TruthyObj(metadata) /\ TruthyObj(m.tags)
                         THEN Some([tags |-> Get(m.tags)]) ELSE None,
             metadata |-> IF TruthyObj(metadata) THEN Some(m) ELSE None]]

\* JSON.stringify(result, null, 2) in the debug log: the TypeError it throws
\* on a value that contains itself, None when it returns a text
JSONstringifyThrows(value) ==
    IF "self" \in DOMAIN value
    THEN Some(Error("Converting circular structure to JSON"))
    ELSE None

\* addMemoryWithMetadata: its result once client.add has settled; the debug
\* log of the response runs inside the try, before the return
addMemoryWithMetadataReturn(outcome) ==
    IF outcome.settled = "resolved"
    THEN IF IsSome(JSONstringifyThrows(outcome.value))
         THEN [success |-> FALSE,
               error |-> ErrorMessage(Get(JSONstringifyThrows(outcome.value)))]
         ELSE [success |-> TRUE, id |-> Get(OrStr(outcome.value.id, Some("unknown")))]
    ELSE [success |-> FALSE, error |-> ErrorMessage(outcome.error)]

DefaultLimit == 10

MaxLimit == 100

\* variant of the filter building without the tags.length > 0 test
searchFiltersOfAnyTags(filters) ==
    [category |-> IF TruthyStr(filters.category) THEN filters.category ELSE None,
     tags |-> filters.tags,
     importance_min |-> IF TruthyNum(filters.importance_min)
                        THEN filters.importance_min ELSE None,
     created_at |-> IF TruthyObj(filters.date_range)
                    THEN Some([gte |-> Get(filters.date_range).start,
                               lte |-> Get(filters.date_range).end])
                    ELSE None]

\* searchMemoriesAdvanced: the filters it builds from the filters argument
searchFiltersOf(filters) ==
    [category |-> IF TruthyStr(filters.category) THEN filters.category ELSE None,
     tags |-> IF TruthyObj(filters.tags) /\ Len(Get(filters.tags)) > 0
              THEN filters.tags ELSE None,
     importance_min |-> IF TruthyNum(filters.importance_min)
                        THEN filters.importance_min ELSE None,
     created_at |-> IF TruthyObj(filters.date_range)
                    THEN Some([gte |-> Get(filters.date_range).start,
                               lte |-> Get(filters.date_range).end])
                    ELSE None]

\* Object.keys(searchFilters).length > 0
HasKeys(searchFilters) ==
    \/ IsSome(searchFilters.category)
    \/ IsSome(searchFilters.tags)
    \/ IsSome(searchFilters.importance_min)
    \/ IsSome(searchFilters.created_at)

\* variant of searchMemoriesAdvanced without the Math.min: limit: limit
searchMemoriesAdvancedCallUncapped(query, userId, filters, limit) ==
    [op |-> "search",
     query |-> query,
     options |->
        [user_id |-> clientGetUserId(userId),
         limit |-> IF IsSome(limit) THEN Get(limit) ELSE DefaultLimit,
         filters |-> IF TruthyObj(filters) /\ HasKeys(searchFiltersOf(Get(filters)))
                     THEN Some(searchFiltersOf(Get(filters))) ELSE None]]

\* searchMemoriesAdvanced: the client.search call it issues
searchMemoriesAdvancedCall(query, userId, filters, limit) ==
    LET lim == IF IsSome(limit) THEN Get(limit) ELSE DefaultLimit
    IN  [op |-> "search",
         query |-> query,
         options |->
            [user_id |-> clientGetUserId(userId),
             limit |-> Min(lim, MaxLimit),
             filters |-> IF TruthyObj(filters) /\ HasKeys(searchFiltersOf(Get(filters)))
                         THEN Some(searchFiltersOf(Get(filters))) ELSE None]]

\* a.metadata?.importance || 0
importanceOf(a) ==
    Get(OrNum(IF IsSome(a.metadata) THEN Get(a.metadata).importance ELSE None, Some(0)))

\* variant of the comparator that sorts ascending: importanceA - importanceB
compareImportanceAscending(a, b) ==
    Get(OrNum(IF IsSome(a.metadata) THEN Get(a.metadata).importance ELSE None, Some(0)))
    - Get(OrNum(IF IsSome(b.metadata) THEN Get(b.metadata).importance ELSE None, Some(0)))

\* the comparator of the importance sort
compareImportance(a, b) == importanceOf(b) - importanceOf(a)

RECURSIVE insertSorted(_, _)
\* Array.prototype.sort is stable: x goes behind every element it does not
\* sort strictly before
insertSorted(x, sorted) ==
    IF sorted = <<>>
    THEN <<x>>
    ELSE IF compareImportance(x, sorted[Len(sorted)]) < 0
         THEN Append(insertSorted(x, SubSeq(sorted, 1, Len(sorted) - 1)), sorted[Len(sorted)])
         ELSE Append(sorted, x)

RECURSIVE sortByImportance(_)
\* sortedResults.sort((a, b) => importanceB - importanceA)
sortByImportance(results) ==
    IF results = <<>>
    THEN <<>>
    ELSE insertSorted(results[Len(results)],
                      sortByImportance(SubSeq(results, 1, Len(results) - 1)))

\* variant that sorts by importance whatever the sort argument
sortedResultsOfAlwaysSorted(sort, value) ==
    IF value.isArray THEN sortByImportance(value.items) ELSE <<>>

\* searchMemoriesAdvanced: the results it returns for what the remote answered
sortedResultsOf(sort, value) ==
    LET effective == IF IsSome(sort) THEN Get(sort) ELSE "relevance"
        sortedResults == IF value.isArray THEN value.items ELSE <<>>
    IN  IF effective = "importance" /\ Len(sortedResults) > 0
        THEN sortByImportance(sortedResults)
        ELSE sortedResults

\* searchMemoriesAdvanced: its result once client.search has settled
searchMemoriesAdvancedReturn(sort, outcome) ==
    IF outcome.settled = "resolved"
    THEN [success |-> TRUE, results |-> sortedResultsOf(sort, outcome.value)]
    ELSE [success |-> FALSE, error |-> ErrorMessage(outcome.error)]

\* variant of updateMemory that always sends a metadata field
updateMemoryCallAlwaysMetadata(memoryId, updates) ==
    LET u == IF IsSome(updates) THEN Get(updates) ELSE [content |-> None, metadata |-> None]
    IN  [op |-> "update",
         memoryId |-> memoryId,
         data |-> [text |-> IF TruthyObj(updates) /\ TruthyStr(u.content)
                            THEN u.content ELSE None,
                   metadata |-> IF TruthyObj(updates) /\ TruthyObj(u.metadata)
                                THEN u.metadata ELSE Some(NoMetadata)]]

\* updateMemory: the client.update call it issues
updateMemoryCall(memoryId, updates) ==
    LET u == IF IsSome(updates) THEN Get(updates) ELSE [content |-> None, metadata |-> None]
    IN  [op |-> "update",
         memoryId |-> memoryId,
         data |-> [text |-> IF TruthyObj(updates) /\ TruthyStr(u.content)
                            THEN u.content ELSE None,
                   metadata |-> IF TruthyObj(updates) /\ TruthyObj(u.metadata)
                                THEN u.metadata ELSE None]]

\* updateMemory: its result once client.update has settled
updateMemoryReturn(outcome) ==
    IF outcome.settled = "resolved"
    THEN [success |-> TRUE]
    ELSE [success |-> FALSE, error |-> ErrorMessage(outcome.error)]

\* deleteMemory and deleteMemories: the client.delete call they issue
deleteCall(memoryId) == [op |-> "delete", memoryId |-> memoryId]

\* deleteMemory: its result once client.delete has settled
deleteMemoryReturn(outcome) ==
    IF outcome.settled = "resolved"
    THEN [success |-> TRUE]
    ELSE [success |-> FALSE, error |-> ErrorMessage(outcome.error)]

\* deleteMemories: the locals before the loop (index is the loop's position)
deleteMemoriesFrame == [index |-> 1, deletedCount |-> 0, errors |-> <<>>]

\* variant of the loop that stops at the first failed delete
deleteMemoriesStepAbort(memoryIds, fr, outcome) ==
    IF outcome.settled = "resolved"
    THEN [fr EXCEPT !.index = @ + 1, !.deletedCount = @ + 1]
    ELSE [fr EXCEPT !.index = Len(memoryIds) + 1,
                    !.errors = Append(@, <<"Failed to delete ", memoryIds[fr.index], ": ",
                                           IF outcome.error.isError
                                           THEN outcome.error.message ELSE "Unknown error">>)]

\* deleteMemories: one iteration of the loop, given how client.delete settled
deleteMemoriesStep(memoryIds, fr, outcome) ==
    IF outcome.settled = "resolved"
    THEN [fr EXCEPT !.index = @ + 1, !.deletedCount = @ + 1]
    ELSE [fr EXCEPT !.index = @ + 1,
                    !.errors = Append(@, <<"Failed to delete ", memoryIds[fr.index], ": ",
                                           ErrorMessage(outcome.error)>>)]

\* variant of the loop that leaves out the last id
deleteMemoriesMoreButLast(memoryIds, fr) == fr.index < Len(memoryIds)

\* deleteMemories: whether the loop has another id to delete
deleteMemoriesMore(memoryIds, fr) == fr.index <= Len(memoryIds)

\* deleteMemories: its result after the loop
deleteMemoriesReturn(fr) ==
    [success |-> Len(fr.errors) = 0, deleted_count |-> fr.deletedCount, errors |-> fr.errors]

(***************************************************************************)
(* The tool catalog.                                                       *)
(***************************************************************************)
MEMORY_ADD_TOOL == [name |-> "memory_add", required |-> <<"content">>]

MEMORY_SEARCH_TOOL == [name |-> "memory_search", required |-> <<"query">>]

MEMORY_UPDATE_TOOL == [name |-> "memory_update", required |-> <<"memory_id", "updates">>]

MEMORY_DELETE_TOOL == [name |-> "memory_delete", required |-> <<>>]

\* variant of the catalog in another order
TOOLSReordered == <<MEMORY_SEARCH_TOOL, MEMORY_ADD_TOOL, MEMORY_UPDATE_TOOL, MEMORY_DELETE_TOOL>>

TOOLS == <<MEMORY_ADD_TOOL, MEMORY_SEARCH_TOOL, MEMORY_UPDATE_TOOL, MEMORY_DELETE_TOOL>>

(***************************************************************************)
(* MCPServerService: the CallTool handler.  A segment of the handler ends  *)
(* by returning a response, by throwing, or at an await of a remote call.  *)
(***************************************************************************)
Return(resp) == [kind |-> "return", response |-> resp]

Throw(e) == [kind |-> "throw", error |-> e]

Await(call) == [kind |-> "await", call |-> call]

\* { content: [{ type: 'text', text }], isError }
TextResponse(text, isError) ==
    [content |-> <<[type |-> "text", text |-> text]>>, isError |-> isError]

RECURSIVE Join(_, _)
\* texts.join(sep), on texts as fragment sequences
Join(texts, sep) ==
    IF texts = <<>>
    THEN <<>>
    ELSE IF Len(texts) = 1
         THEN texts[1]
         ELSE texts[1] \o <<sep>> \o Join(SubSeq(texts, 2, Len(texts)), sep)

\* the text block of one search result
formatMemory(memory) ==
    LET md == IF IsSome(memory.metadata) THEN Get(memory.metadata)
              ELSE ResultMetadata(None, None, None, None)
    IN  <<"Memory: ", memory.memory, "\nRelevance: ", ToString(memory.score)>>
        \o (IF TruthyStr(md.category) THEN <<"\nCategory: ", Get(md.category)>> ELSE <<>>)
        \o (IF TruthyNum(md.importance)
            THEN <<"\nImportance: ", ToString(Get(md.importance))>> ELSE <<>>)
        \o (IF TruthyObj(md.tags)
            THEN <<"\nTags: ">> \o Join([i \in 1..Len(Get(md.tags).items) |->
                                            <<Get(md.tags).items[i]>>], ", ")
            ELSE <<>>)
        \o (IF TruthyStr(md.source) THEN <<"\nSource: ", Get(md.source)>> ELSE <<>>)
        \o (IF memory.id # "" THEN <<"\nID: ", memory.id>> ELSE <<>>)
        \o <<"\n---">>

\* memory.metadata.tags.join throws a TypeError when tags is not an array
formatThrows(results) ==
    \E i \in 1..Len(results) :
        /\ IsSome(results[i].metadata)
        /\ TruthyObj(Get(results[i].metadata).tags)
        /\ ~Get(Get(results[i].metadata).tags).array

\* variant of the search response without the `|| 'No memories found'`
searchResponseNoFallback(res) ==
    IF res.success
    THEN IF formatThrows(res.results)
         THEN Throw(Error("memory.metadata.tags.join is not a function"))
         ELSE Return(TextResponse(Join([i \in 1..Len(res.results) |->
                                           formatMemory(res.results[i])], "\n"), FALSE))
    ELSE Return(TextResponse(<<"Failed to search memories: ",
                               Get(OrStr(Some(res.error), Some("Unknown error")))>>, TRUE))

\* case 'memory_search': the response for the adapter's result
searchResponse(res) ==
    IF res.success
    THEN IF formatThrows(res.results)
         THEN Throw(Error("memory.metadata.tags.join is not a function"))
         ELSE LET formattedResults ==
                      Join([i \in 1..Len(res.results) |-> formatMemory(res.results[i])], "\n")
              IN  Return(TextResponse(IF formattedResults # <<>> THEN formattedResults
                                      ELSE <<"No memories found">>, FALSE))
    ELSE Return(TextResponse(<<"Failed to search memories: ",
                               Get(OrStr(Some(res.error), Some("Unknown error")))>>, TRUE))

\* variant of the add response that does not flag a failed add
addResponseUnflagged(res) ==
    IF res.success
    THEN Return(TextResponse(<<"Memory added successfully with ID: ", res.id>>, FALSE))
    ELSE Return(TextResponse(<<"Failed to add memory">>, FALSE))

\* case 'memory_add': the response for the adapter's result
addResponse(res) ==
    IF res.success
    THEN Return(TextResponse(<<"Memory added successfully with ID: ", res.id>>, FALSE))
    ELSE Return(TextResponse(<<"Failed to add memory: ", res.error>>, TRUE))

\* case 'memory_update': the response for the adapter's result
updateResponse(memory_id, res) ==
    IF res.success
    THEN Return(TextResponse(<<"Memory ", memory_id, " updated successfully">>, FALSE))
    ELSE Return(TextResponse(<<"Failed to update memory: ", res.error>>, TRUE))

\* case 'memory_delete', single path: the response for the adapter's result
deleteResponse(memory_id, res) ==
    IF res.success
    THEN Return(TextResponse(<<"Memory ", memory_id, " deleted successfully">>, FALSE))
    ELSE Return(TextResponse(<<"Failed to delete memory: ", res.error>>, TRUE))

\* variant of the bulk response that flags no error
bulkDeleteResponseUnflagged(res) ==
    [kind |-> "return",
     response |-> [content |-> <<[type |-> "text",
                                  text |-> <<"Deleted ", ToString(res.deleted_count),
                                             " memories successfully">>]>>,
                   isError |-> FALSE]]

\* case 'memory_delete', bulk path: the response for the adapter's result
bulkDeleteResponse(res) ==
    LET successMessage == <<"Deleted ", ToString(res.deleted_count), " memories successfully">>
        errorMessage == IF Len(res.errors) > 0
                        THEN <<"\nErrors: ">> \o Join(res.errors, "; ")
                        ELSE <<>>
    IN  Return(TextResponse(successMessage \o errorMessage, ~res.success))

ConfirmationRequired == <<"Deletion requires confirmation. Please set confirm: true to proceed.">>

\* variant of the confirmation check: if (confirm === false)
confirmedUnlessFalse(confirm) == confirm.type # "boolean" \/ confirm.truthy

\* case 'memory_delete': the confirmation check, if (!confirm)
confirmed(confirm) == confirm.truthy

\* variant of the switch whose default case is the delete case's last branch
branchOfNoDefault(req) ==
    LET args == Get(req.arguments)
    IN  CASE req.name = "memory_add" -> "add"
          [] req.name = "memory_search" -> "search"
          [] req.name = "memory_update" -> "update"
          [] req.name = "memory_delete" ->
                IF ~confirmed(args.confirm) THEN "unconfirmed"
                ELSE IF TruthyStr(args.memory_id) THEN "delete"
                ELSE IF TruthyObj(args.memory_ids) /\ Len(Get(args.memory_ids)) > 0
                     THEN "bulk"
                     ELSE "notarget"
          [] req.name = "deleteMemories" -> "direct"
          [] OTHER -> "notarget"

\* variant of the delete case that looks at memory_ids before memory_id
branchOfBulkFirst(req) ==
    LET args == Get(req.arguments)
    IN  CASE req.name = "memory_add" -> "add"
          [] req.name = "memory_search" -> "search"
          [] req.name = "memory_update" -> "update"
          [] req.name = "memory_delete" ->
                IF ~confirmed(args.confirm) THEN "unconfirmed"
                ELSE IF TruthyObj(args.memory_ids) /\ Len(Get(args.memory_ids)) > 0
                     THEN "bulk"
                     ELSE IF TruthyStr(args.memory_id) THEN "delete"
                     ELSE "notarget"
          [] req.name = "deleteMemories" -> "direct"
          [] OTHER -> "unknown"

\* which branch of the handler a request with arguments takes
branchOf(req) ==
    LET args == Get(req.arguments)
    IN  CASE req.name = "memory_add" -> "add"
          [] req.name = "memory_search" -> "search"
          [] req.name = "memory_update" -> "update"
          [] req.name = "memory_delete" ->
                IF ~confirmed(args.confirm) THEN "unconfirmed"
                ELSE IF TruthyStr(args.memory_id) THEN "delete"
                ELSE IF TruthyObj(args.memory_ids) /\ Len(Get(args.memory_ids)) > 0
                     THEN "bulk"
                     ELSE "notarget"
          [] req.name = "deleteMemories" -> "direct"
          [] OTHER -> "unknown"

\* variant of deleteMemories that does not await its deletes and returns at once
deleteMemoriesBeginNoAwait(memoryIds) ==
    [kind |-> "result",
     result |-> [success |-> TRUE, deleted_count |-> Len(memoryIds), errors |-> <<>>]]

\* deleteMemories from its entry to the first await, or to its return
deleteMemoriesBegin(memoryIds) ==
    IF deleteMemoriesMore(memoryIds, deleteMemoriesFrame)
    THEN Await(deleteCall(memoryIds[1]))
    ELSE [kind |-> "result", result |-> deleteMemoriesReturn(deleteMemoriesFrame)]

\* variant of the handler whose single delete names the user in its remote call
callToolBeginDeleteForUser(req) ==
    IF ~TruthyObj(req.arguments)
    THEN Throw(Error("No arguments provided"))
    ELSE LET args == Get(req.arguments)
             branch == branchOf(req)
         IN  CASE branch = "add" ->
                    Await(addMemoryWithMetadataCall(Get(args.content),
                                                    Some(getUserId(args.userId)), args.metadata))
               [] branch = "search" ->
                    Await(searchMemoriesAdvancedCall(Get(args.query), Some(getUserId(args.userId)),
                                                     args.filters, args.limit))
               [] branch = "update" -> Await(updateMemoryCall(Get(args.memory_id), args.updates))
               [] branch = "unconfirmed" -> Return(TextResponse(ConfirmationRequired, TRUE))
               [] branch = "delete" ->
                    Await([op |-> "delete", memoryId |-> Get(args.memory_id),
                           user_id |-> getUserId(args.userId)])
               [] branch = "bulk" -> deleteMemoriesBegin(Get(args.memory_ids))
               [] branch = "notarget" ->
                    Return(TextResponse(<<"Either memory_id or memory_ids must be provided">>,
                                        TRUE))
               [] OTHER -> Return(TextResponse(<<"Unknown tool: ", req.name>>, TRUE))

\* the try block from the entry of the handler to its first await or return
callToolBegin(req) ==
    IF ~TruthyObj(req.arguments)
    THEN Throw(Error("No arguments provided"))
    ELSE LET args == Get(req.arguments)
             branch == branchOf(req)
         IN  CASE branch = "add" ->
                    Await(addMemoryWithMetadataCall(Get(args.content),
                                                    Some(getUserId(args.userId)), args.metadata))
               [] branch = "search" ->
                    Await(searchMemoriesAdvancedCall(Get(args.query), Some(getUserId(args.userId)),
                                                     args.filters, args.limit))
               [] branch = "update" -> Await(updateMemoryCall(Get(args.memory_id), args.updates))
               [] branch = "unconfirmed" -> Return(TextResponse(ConfirmationRequired, TRUE))
               [] branch = "delete" -> Await(deleteCall(Get(args.memory_id)))
               [] branch = "bulk" -> deleteMemoriesBegin(Get(args.memory_ids))
               [] branch = "notarget" ->
                    Return(TextResponse(<<"Either memory_id or memory_ids must be provided">>,
                                        TRUE))
               [] OTHER -> Return(TextResponse(<<"Unknown tool: ", req.name>>, TRUE))

\* variant of the handler without its catch block
catchErrorRethrow(step) == step

\* the catch block of the handler: a thrown value becomes an error response
catchError(step) ==
    IF step.kind = "throw"
    THEN Return(TextResponse(<<"Error: ", step.error.message>>, TRUE))
    ELSE step

\* how the handler's promise settles when a segment ends without an await
settle(step) ==
    IF step.kind = "return" THEN Resolved(step.response) ELSE Rejected(step.error)

\* an adapter operation returned to a caller other than the handler
Result(res) == [kind |-> "result", result |-> res]

\* variant of the handler in which a failed single delete is tried a second time
resumeRetryDelete(req, fr, outcome) ==
    LET args == Get(req.arguments)
        branch == branchOf(req)
    IN  CASE branch = "add" ->
               LET res == addMemoryWithMetadataReturn(outcome)
               IN  [step |-> addResponse(res), frame |-> fr, result |-> Some(res)]
          [] branch = "search" ->
               LET res == searchMemoriesAdvancedReturn(args.sort, outcome)
               IN  [step |-> searchResponse(res), frame |-> fr, result |-> Some(res)]
          [] branch = "update" ->
               LET res == updateMemoryReturn(outcome)
               IN  [step |-> updateResponse(Get(args.memory_id), res), frame |-> fr,
                    result |-> Some(res)]
          [] branch = "delete" ->
               LET res == deleteMemoryReturn(outcome)
               IN  IF outcome.settled = "rejected" /\ fr.index = 1
                   THEN [step |-> Await(deleteCall(Get(args.memory_id))),
                         frame |-> [fr EXCEPT !.index = 2], result |-> None]
                   ELSE [step |-> deleteResponse(Get(args.memory_id), res), frame |-> fr,
                         result |-> Some(res)]
          [] OTHER ->
               LET memoryIds == Get(args.memory_ids)
                   next == deleteMemoriesStep(memoryIds, fr, outcome)
                   res == deleteMemoriesReturn(next)
               IN  IF deleteMemoriesMore(memoryIds, next)
                   THEN [step |-> Await(deleteCall(memoryIds[next.index])), frame |-> next,
                         result |-> None]
                   ELSE [step |-> IF branch = "bulk" THEN bulkDeleteResponse(res)
                                  ELSE Result(res),
                         frame |-> next, result |-> Some(res)]

\* the handler (or, for "direct", deleteMemories alone) from a settled await to
\* its next await or its end: the segment's end, the locals and the adapter's result
resume(req, fr, outcome) ==
    LET args == Get(req.arguments)
        branch == branchOf(req)
    IN  CASE branch = "add" ->
               LET res == addMemoryWithMetadataReturn(outcome)
               IN  [step |-> addResponse(res), frame |-> fr, result |-> Some(res)]
          [] branch = "search" ->
               LET res == searchMemoriesAdvancedReturn(args.sort, outcome)
               IN  [step |-> searchResponse(res), frame |-> fr, result |-> Some(res)]
          [] branch = "update" ->
               LET res == updateMemoryReturn(outcome)
               IN  [step |-> updateResponse(Get(args.memory_id), res), frame |-> fr,
                    result |-> Some(res)]
          [] branch = "delete" ->
               LET res == deleteMemoryReturn(outcome)
               IN  [step |-> deleteResponse(Get(args.memory_id), res), frame |-> fr,
                    result |-> Some(res)]
          [] OTHER ->
               LET memoryIds == Get(args.memory_ids)
                   next == deleteMemoriesStep(memoryIds, fr, outcome)
                   res == deleteMemoriesReturn(next)
               IN  IF deleteMemoriesMore(memoryIds, next)
                   THEN [step |-> Await(deleteCall(memoryIds[next.index])), frame |-> next,
                         result |-> None]
                   ELSE [step |-> IF branch = "bulk" THEN bulkDeleteResponse(res)
                                  ELSE Result(res),
                         frame |-> next, result |-> Some(res)]

(***************************************************************************)
(* The state machine.                                                      *)
(***************************************************************************)
Reqs == {"r1", "r2"}

\* direct callers of the exported adapter (as its unit tests are)
AdapterRequests ==
    {[name |-> "deleteMemories",
      arguments |-> Some([NoArgs EXCEPT !.memory_ids = Some(s), !.userId = u])] :
        s \in DistinctSeqsUpTo(MemoryIds, MaxIds), u \in {None, Some("alice")}}

Pending(call) == [call |-> call, outcome |-> None]

Init ==
    /\ env \in Envs
    /\ mem0Client = Mem0ClientServiceNew(env)
    /\ mcpServer = MCPServerServiceNew(env, mem0Client)
    /\ pc = [r \in Reqs |-> "idle"]
    /\ request = [r \in Reqs |-> NoRequest]
    /\ calls = [r \in Reqs |-> <<>>]
    /\ frame = [r \in Reqs |-> deleteMemoriesFrame]
    /\ result = [r \in Reqs |-> None]
    /\ response = [r \in Reqs |-> None]

\* variant in which deletedCount and errors are members of the adapter, shared
\* by the invocations, instead of locals of deleteMemories
AdvanceSharedCounters(r, step, settledCalls, fr, res) ==
    /\ pc' = [pc EXCEPT ![r] = IF step.kind = "await" THEN "awaiting" ELSE "done"]
    /\ calls' = [calls EXCEPT ![r] = IF step.kind = "await"
                                     THEN Append(settledCalls, [call |-> step.call,
                                                                outcome |-> <<>>])
                                     ELSE settledCalls]
    /\ frame' = [q \in DOMAIN frame |->
                    IF q = r THEN fr
                    ELSE [frame[q] EXCEPT !.deletedCount = fr.deletedCount,
                                          !.errors = fr.errors]]
    /\ result' = [result EXCEPT ![r] = IF step.kind = "result" THEN Some(step.result) ELSE res]
    /\ response' = [response EXCEPT ![r] = IF step.kind \in {"return", "throw"}
                                           THEN Some(settle(step)) ELSE None]

\* a segment of an invocation ended in `step`: record where the invocation is now
Advance(r, step, settledCalls, fr, res) ==
    /\ pc' = [pc EXCEPT ![r] = IF step.kind = "await" THEN "awaiting" ELSE "done"]
    /\ calls' = [calls EXCEPT ![r] = IF step.kind = "await"
                                     THEN Append(settledCalls, Pending(step.call))
                                     ELSE settledCalls]
    /\ frame' = [frame EXCEPT ![r] = fr]
    /\ result' = [result EXCEPT ![r] = IF step.kind = "result" THEN Some(step.result) ELSE res]
    /\ response' = [response EXCEPT ![r] = IF step.kind \in {"return", "throw"}
                                           THEN Some(settle(step)) ELSE None]

\* the ListTools handler
ListTools(r) ==
    /\ mcpServer.constructed
    /\ pc[r] = "idle"
    /\ request' = [request EXCEPT ![r] = [name |-> "tools/list", arguments |-> None]]
    /\ pc' = [pc EXCEPT ![r] = "done"]
    /\ response' = [response EXCEPT ![r] = Some(Resolved([tools |-> TOOLS]))]
    /\ UNCHANGED <<env, mem0Client, mcpServer, calls, frame, result>>

\* variant of the handler that keeps the user of a request as the new default:
\* this.defaultUserId = this.getUserId(userId)
CallToolKeepsUser(r) ==
    /\ mcpServer.constructed
    /\ pc[r] = "idle"
    /\ \E req \in Requests :
          /\ request' = [request EXCEPT ![r] = req]
          /\ Advance(r, catchError(callToolBegin(req)), <<>>, deleteMemoriesFrame, None)
          /\ mcpServer' = IF IsSome(req.arguments)
                          THEN [mcpServer EXCEPT
                                   !.defaultUserId = getUserId(Get(req.arguments).userId)]
                          ELSE mcpServer
    /\ UNCHANGED <<env, mem0Client>>

\* the CallTool handler receives a request and runs to its first await or its end
CallTool(r) ==
    /\ mcpServer.constructed
    /\ pc[r] = "idle"
    /\ \E req \in Requests :
          /\ request' = [request EXCEPT ![r] = req]
          /\ Advance(r, catchError(callToolBegin(req)), <<>>, deleteMemoriesFrame, None)
    /\ UNCHANGED <<env, mem0Client, mcpServer>>

\* a direct caller invokes mem0Client.deleteMemories
CallDeleteMemories(r) ==
    /\ mem0Client.constructed
    /\ pc[r] = "idle"
    /\ \E req \in AdapterRequests :
          /\ request' = [request EXCEPT ![r] = req]
          /\ Advance(r, deleteMemoriesBegin(Get(Get(req.arguments).memory_ids)), <<>>,
                     deleteMemoriesFrame, None)
    /\ UNCHANGED <<env, mem0Client, mcpServer>>

\* the outstanding remote call settles and the invocation runs to its next await
\* or its end
RemoteSettles(r) ==
    /\ pc[r] = "awaiting"
    /\ LET n == Len(calls[r])
           last == calls[r][n]
       IN  \E outcome \in Outcomes(last.call.op) :
              LET k == resume(request[r], frame[r], outcome)
                  step == IF branchOf(request[r]) = "direct" THEN k.step
                          ELSE catchError(k.step)
              IN  Advance(r, step, [calls[r] EXCEPT ![n].outcome = Some(outcome)],
                          k.frame, k.result)
    /\ UNCHANGED <<env, mem0Client, mcpServer, request>>

\* the transport sends the response; the invocation is over
Deliver(r) ==
    /\ pc[r] = "done"
    /\ pc' = [pc EXCEPT ![r] = "idle"]
    /\ request' = [request EXCEPT ![r] = NoRequest]
    /\ calls' = [calls EXCEPT ![r] = <<>>]
    /\ frame' = [frame EXCEPT ![r] = deleteMemoriesFrame]
    /\ result' = [result EXCEPT ![r] = None]
    /\ response' = [response EXCEPT ![r] = None]
    /\ UNCHANGED <<env, mem0Client, mcpServer>>

\* the slot of a client that waits for each response before its next request
Waiting == {"r1"}

Next ==
    \E r \in Waiting :
        \/ ListTools(r)
        \/ CallTool(r)
        \/ CallDeleteMemories(r)
        \/ RemoteSettles(r)
        \/ Deliver(r)

Spec == Init /\ [][Next]_vars

(***************************************************************************)
(* The server with requests pipelined: the transport hands a request to    *)
(* the handler while the invocations before it still await their remote    *)
(* calls, and the remote calls settle in any order.                        *)
(***************************************************************************)
\* the requests of the pipelining clients: each tool, for two users, and for the
\* tools whose adapter operation takes a userId it does not use, twice with
\* userId alone differing
PipelinedRequests ==
    {[name |-> "memory_add",
      arguments |-> Some([NoArgs EXCEPT !.content = Some("note")])],
     [name |-> "memory_search",
      arguments |-> Some([NoArgs EXCEPT !.query = Some("hooks"), !.userId = Some("alice"),
                                        !.sort = Some("importance")])]}
    \cup {[name |-> "memory_update",
           arguments |-> Some([NoArgs EXCEPT !.memory_id = Some("A"), !.userId = u,
                                   !.updates = Some([content |-> Some("new text"),
                                                     metadata |-> None])])] :
            u \in {None, Some("alice")}}
    \cup {[name |-> "memory_delete",
           arguments |-> Some([NoArgs EXCEPT !.memory_id = Some("A"), !.userId = u,
                                   !.confirm = [type |-> "boolean", truthy |-> TRUE]])] :
            u \in {None, Some("alice")}}
    \cup {[name |-> "memory_delete",
           arguments |-> Some([NoArgs EXCEPT !.memory_ids = Some(<<"A", "B">>), !.userId = u,
                                   !.confirm = [type |-> "boolean", truthy |-> TRUE]])] :
            u \in {None, Some("alice")}}

\* the outcomes of a remote call of a pipelined request, by operation
PipelinedOutcomes(op) ==
    {Rejected(Error("Memory not found"))} \cup
    CASE op = "add" -> {Resolved([id |-> Some("mem-1")])}
      [] op = "search" ->
            {Resolved(Array(<<m, n>>)) :
                m \in {x \in MemoryPool : x.id = "m4"}, n \in {x \in MemoryPool : x.id = "m6"}}
      [] OTHER -> {Resolved([ok |-> TRUE])}

\* the CallTool handler receives a pipelined request
CallToolPipelined(r) ==
    /\ mcpServer.constructed
    /\ pc[r] = "idle"
    /\ \E req \in PipelinedRequests :
          /\ request' = [request EXCEPT ![r] = req]
          /\ Advance(r, catchError(callToolBegin(req)), <<>>, deleteMemoriesFrame, None)
    /\ UNCHANGED <<env, mem0Client, mcpServer>>

\* the outstanding remote call of a pipelined request settles and its invocation
\* runs to its next await or its end
RemoteSettlesPipelined(r) ==
    /\ pc[r] = "awaiting"
    /\ LET n == Len(calls[r])
           last == calls[r][n]
       IN  \E outcome \in PipelinedOutcomes(last.call.op) :
              \E k \in {resume(request[r], frame[r], outcome)} :
                 \E step \in {catchError(k.step)} :
                    Advance(r, step, [calls[r] EXCEPT ![n].outcome = Some(outcome)],
                            k.frame, k.result)
    /\ UNCHANGED <<env, mem0Client, mcpServer, request>>

NextPipelined ==
    \E r \in Reqs :
        \/ ListTools(r)
        \/ CallToolPipelined(r)
        \/ RemoteSettlesPipelined(r)
        \/ Deliver(r)

SpecPipelined == Init /\ [][NextPipelined]_vars

\* the pipelined server when every remote call completes: a pending remote call
\* is eventually settled, and the continuation of its await then runs
SpecLive == SpecPipelined /\ \A r \in Reqs : WF_vars(RemoteSettlesPipelined(r))

(***************************************************************************)
(* Vocabulary of the properties.                                           *)
(***************************************************************************)
\* r holds a CallTool request
Invoked(r) == request[r].name \in ToolNames \cup {UnknownToolName}

\* r holds a CallTool request for tool `name` that has arguments
InvokedWith(r, name) == request[r].name = name /\ IsSome(request[r].arguments)

ArgsOf(r) == Get(request[r].arguments)

\* r runs deleteMemories: through memory_delete's bulk path, or called directly
RunsDeleteMemories(r) ==
    /\ request[r].name \in {"memory_delete", "deleteMemories"}
    /\ IsSome(request[r].arguments)
    /\ branchOf(request[r]) \in {"bulk", "direct"}

\* the response of r is the text response with this text and flag
RespondedWith(r, text, isError) ==
    response[r] = Some(Resolved(TextResponse(text, isError)))

\* the i-th remote call of r has settled, and resolved
CallResolved(r, i) ==
    IsSome(calls[r][i].outcome) /\ Get(calls[r][i].outcome).settled = "resolved"

\* the i-th remote call of r has settled, and rejected
CallRejected(r, i) ==
    IsSome(calls[r][i].outcome) /\ Get(calls[r][i].outcome).settled = "rejected"

\* the message a rejected call's error carries, 'Unknown error' if it is no Error
RejectionMessage(r, i) ==
    LET e == Get(calls[r][i].outcome).error
    IN  IF e.isError THEN e.message ELSE "Unknown error"

Indices(n) == [i \in 1..n |-> i]

(***************************************************************************)
(* C1  A memory_delete invocation whose confirm is absent or false makes   *)
(* no remote call and reaches no adapter operation, whether memory_id or   *)
(* memory_ids is supplied, and its response is the error-flagged text      *)
(* 'Deletion requires confirmation. Please set confirm: true to proceed.'. *)
(***************************************************************************)
Unconfirmed(r) ==
    /\ InvokedWith(r, "memory_delete")
    /\ \/ ArgsOf(r).confirm.type = "undefined"
       \/ ArgsOf(r).confirm = [type |-> "boolean", truthy |-> FALSE]

C1_UnconfirmedDeleteCallsNothing ==
    \A r \in Reqs :
        Unconfirmed(r) =>
            /\ pc[r] = "done"
            /\ calls[r] = <<>>
            /\ result[r] = None
            /\ RespondedWith(r, ConfirmationRequired, TRUE)

C1_Witness ==
    \E r \in Reqs :
        /\ Unconfirmed(r)
        /\ ArgsOf(r).confirm.type = "boolean"
        /\ ArgsOf(r).memory_id = None
        /\ ArgsOf(r).memory_ids = Some(<<"A", "B">>)
        /\ RespondedWith(r, ConfirmationRequired, TRUE)

(***************************************************************************)
(* C2  Every CallTool invocation, whatever the tool name, the arguments    *)
(* and the outcome of its remote calls, ends with a response               *)
(* {content: [one {type: 'text', text}], isError: boolean}; the handler's  *)
(* promise never rejects.                                                  *)
(***************************************************************************)
C2_AlwaysAStructuredResponse ==
    \A r \in Reqs :
        (Invoked(r) /\ pc[r] = "done") =>
            /\ IsSome(response[r])
            /\ Get(response[r]).settled = "resolved"
            /\ LET resp == Get(response[r]).value
               IN  /\ DOMAIN resp = {"content", "isError"}
                   /\ Len(resp.content) = 1
                   /\ DOMAIN resp.content[1] = {"type", "text"}
                   /\ resp.content[1].type = "text"
                   /\ resp.isError \in BOOLEAN

\* a search whose results made the formatting throw, answered as an error text
C2_Witness ==
    \E r \in Reqs :
        /\ InvokedWith(r, "memory_search")
        /\ pc[r] = "done"
        /\ Len(calls[r]) = 1
        /\ CallResolved(r, 1)
        /\ RespondedWith(r, <<"Error: ", "memory.metadata.tags.join is not a function">>, TRUE)

(***************************************************************************)
(* C3  deleteMemories attempts every id of its list, whichever of them     *)
(* fail, and returns deleted_count = the number of ids whose remote delete *)
(* succeeded, errors = 'Failed to delete <id>: <message>' for each failed  *)
(* id in input order, success = (errors is empty); so deleted_count +      *)
(* length(errors) = length(ids).                                           *)
(***************************************************************************)
ExpectedErrors(r) ==
    LET ids == ArgsOf(r).memory_ids[1]
        failed == SelectSeq(Indices(Len(calls[r])), LAMBDA i : CallRejected(r, i))
    IN  [k \in 1..Len(failed) |->
            <<"Failed to delete ", ids[failed[k]], ": ", RejectionMessage(r, failed[k])>>]

C4_BulkDeleteSequential ==
    \A r \in Reqs :
        RunsDeleteMemories(r) =>
            LET ids == ArgsOf(r).memory_ids[1]
                n == Len(calls[r])
            IN  /\ n <= Len(ids)
                /\ \A i \in 1..n : calls[r][i].call = [op |-> "delete", memoryId |-> ids[i]]
                /\ \A i \in 1..n : (i < n) => IsSome(calls[r][i].outcome)
                /\ (pc[r] = "awaiting") => (n > 0 /\ calls[r][n].outcome = None)
                /\ (pc[r] = "done") => (n = Len(ids) /\ \A i \in 1..n : IsSome(calls[r][i].outcome))
                /\ (pc[r] = "done" /\ ids = <<>>) =>
                        result[r] = Some([success |-> TRUE, deleted_count |-> 0,
                                          errors |-> <<>>])

\* the second of three deletes is outstanding, the first has settled
C4_Witness ==
    \E r \in Reqs :
        /\ RunsDeleteMemories(r)
        /\ pc[r] = "awaiting"
        /\ ArgsOf(r).memory_ids = Some(<<"C", "A", "B">>)
        /\ Len(calls[r]) = 2
        /\ CallRejected(r, 1)
        /\ calls[r][2] = [call |-> [op |-> "delete", memoryId |-> "A"], outcome |-> None]

(***************************************************************************)
(* C5  (as claimed) Bulk deletion is atomic: after a memory_delete         *)
(* invocation with memory_ids, either every listed memory has been deleted *)
(* remotely or none has.                                                   *)
(***************************************************************************)
BulkDeleteDone(r) ==
    /\ InvokedWith(r, "memory_delete")
    /\ branchOf(request[r]) = "bulk"
    /\ pc[r] = "done"

CarriesUser(call) == call.op \in {"add", "search"}

C6_Claimed_UserIdPriority ==
    \A r \in Reqs :
        \A i \in 1..Len(calls[r]) :
            (Invoked(r) /\ CarriesUser(calls[r][i].call)) =>
                calls[r][i].call.options.user_id =
                    IF IsSome(ArgsOf(r).userId) THEN Get(ArgsOf(r).userId)
                    ELSE IF IsSome(env.MEM0_USER_ID) THEN Get(env.MEM0_USER_ID)
                    ELSE "mcp-mem0-user"

(***************************************************************************)
(* C6  (amended) The user id of an invocation is the caller-supplied       *)
(* userId whenever a non-empty one is supplied, otherwise the configured   *)
(* MEM0_USER_ID whenever a non-empty one is configured, otherwise          *)
(* 'mcp-mem0-user'; an empty string counts as not supplied, and as not     *)
(* configured.                                                             *)
(***************************************************************************)
NonEmpty(o) == o # None /\ o # Some("")

ExpectedUserId(r) ==
    IF NonEmpty(ArgsOf(r).userId) THEN Get(ArgsOf(r).userId)
    ELSE IF NonEmpty(env.MEM0_USER_ID) THEN Get(env.MEM0_USER_ID)
    ELSE "mcp-mem0-user"

C6_UserIdPriority ==
    \A r \in Reqs :
        \A i \in 1..Len(calls[r]) :
            (Invoked(r) /\ CarriesUser(calls[r][i].call)) =>
                calls[r][i].call.options.user_id = ExpectedUserId(r)

\* an empty userId with an empty MEM0_USER_ID resolves to the literal
C6_Witness ==
    \E r \in Reqs :
        /\ InvokedWith(r, "memory_add")
        /\ ArgsOf(r).userId = Some("")
        /\ env.MEM0_USER_ID = Some("")
        /\ Len(calls[r]) = 1
        /\ calls[r][1].call.options.user_id = "mcp-mem0-user"

(***************************************************************************)
(* C7  Every remote call made for add, search, update and delete (single   *)
(* and bulk) carries the one user id resolved for its invocation.          *)
(***************************************************************************)
\* the user id a remote call names, if it names one
UserOfCall(call) == IF CarriesUser(call) THEN Some(call.options.user_id) ELSE None

C7_EveryRemoteCallCarriesTheUser ==
    \A r \in Reqs :
        \A i \in 1..Len(calls[r]) :
            Invoked(r) => UserOfCall(calls[r][i].call) = Some(ExpectedUserId(r))

(***************************************************************************)
(* Searches whose remote call resolved with an array.                       *)
(***************************************************************************)
\* r is a finished search, with this sort argument, whose remote search
\* resolved with an array
SearchAnswered(r, sorts) ==
    /\ InvokedWith(r, "memory_search")
    /\ pc[r] = "done"
    /\ ArgsOf(r).sort \in sorts
    /\ CallResolved(r, 1)
    /\ Get(calls[r][1].outcome).value.isArray

\* what the remote search returned to r
RemoteResults(r) == Get(calls[r][1].outcome).value.items

\* what searchMemoriesAdvanced returned to the handler
ReturnedResults(r) == Get(result[r]).results

\* the importance of a result: metadata.importance, 0 when there is none
Importance(m) ==
    IF m.metadata = None THEN 0
    ELSE IF Get(m.metadata).importance = None THEN 0
    ELSE Get(Get(m.metadata).importance)

\* the position of the result with this id in a result list
PositionIn(results, id) == CHOOSE i \in 1..Len(results) : results[i].id = id

(***************************************************************************)
(* C8  With sort = 'importance', searchMemoriesAdvanced returns a          *)
(* permutation of the remote results in descending order of                *)
(* metadata.importance, a missing importance or missing metadata counting  *)
(* as 0, results of equal importance keeping their relative order.         *)
(***************************************************************************)
C8_ImportanceSortStableDescending ==
    \A r \in Reqs :
        SearchAnswered(r, {Some("importance")}) =>
            LET in == RemoteResults(r)
                out == ReturnedResults(r)
            IN  /\ Get(result[r]).success
                /\ Len(out) = Len(in)
                /\ {out[i] : i \in 1..Len(out)} = {in[i] : i \in 1..Len(in)}
                /\ \A i, j \in 1..Len(out) :
                      (i < j) => Importance(out[i]) >= Importance(out[j])
                /\ \A i, j \in 1..Len(out) :
                      (i < j /\ Importance(out[i]) = Importance(out[j]))
                          => PositionIn(in, out[i].id) < PositionIn(in, out[j].id)

\* a result without metadata, then two of importance 5: the two move ahead in
\* their order
C8_Witness ==
    \E r \in Reqs :
        /\ SearchAnswered(r, {Some("importance")})
        /\ Len(RemoteResults(r)) = 3
        /\ RemoteResults(r)[1].id = "m4"
        /\ RemoteResults(r)[2].id = "m6"
        /\ RemoteResults(r)[3].id = "m3"
        /\ ReturnedResults(r) = <<RemoteResults(r)[2], RemoteResults(r)[3], RemoteResults(r)[1]>>

C10_DateSortNewestFirst ==
    \A r \in Reqs :
        SearchAnswered(r, {Some("date")}) =>
            \A i, j \in 1..Len(ReturnedResults(r)) :
                (i < j) => ReturnedResults(r)[i].created_at >= ReturnedResults(r)[j].created_at

(***************************************************************************)
(* Searches and the remote search call they make.                          *)
(***************************************************************************)
\* r is a memory_search invocation that has issued its remote search
SearchIssued(r) == InvokedWith(r, "memory_search") /\ Len(calls[r]) = 1

\* the limit the remote search call of r carries
SentLimit(r) == calls[r][1].call.options.limit

\* the limit the caller asked for, 10 when the caller gave none
RequestedLimit(r) == IF ArgsOf(r).limit = None THEN 10 ELSE ArgsOf(r).limit[1]

C12_LimitClampedToOneHundred ==
    \A r \in Reqs :
        SearchIssued(r) => (SentLimit(r) >= 1 /\ SentLimit(r) <= 100)

(***************************************************************************)
(* C13  If the remote service fails with an exception (an Error) carrying  *)
(* message m during add, search, update, single delete or bulk delete, the *)
(* invocation's response is error-flagged and its text contains m.         *)
(***************************************************************************)
\* the i-th remote call of r was rejected with an Error
FailedWithError(r, i) == CallRejected(r, i) /\ Get(calls[r][i].outcome).error.isError

\* the text of the response of r
ResponseText(r) == Get(response[r]).value.content[1].text

C13_RemoteFailureIsReported ==
    \A r \in Reqs :
        (Invoked(r) /\ pc[r] = "done") =>
            \A i \in 1..Len(calls[r]) :
                FailedWithError(r, i) =>
                    /\ Get(response[r]).settled = "resolved"
                    /\ Get(response[r]).value.isError = TRUE
                    /\ \E k \in 1..Len(ResponseText(r)) :
                          ResponseText(r)[k] = Get(calls[r][i].outcome).error.message

\* an update whose remote call failed with 'Memory not found'
C13_Witness ==
    \E r \in Reqs :
        /\ InvokedWith(r, "memory_update")
        /\ pc[r] = "done"
        /\ FailedWithError(r, 1)
        /\ RespondedWith(r, <<"Failed to update memory: ", "Memory not found">>, TRUE)

(***************************************************************************)
(* C14  No adapter operation lets a vendor exception escape: when the      *)
(* vendor call rejects, addMemoryWithMetadata, searchMemoriesAdvanced,     *)
(* updateMemory and deleteMemory each return normally with                 *)
(* {success: false, error}, where error is the exception's message for an  *)
(* Error and 'Unknown error' for any other thrown value.                   *)
(***************************************************************************)
\* r runs one of the four single-call adapter operations
RunsSingleCallOperation(r) ==
    /\ Invoked(r)
    /\ IsSome(request[r].arguments)
    /\ branchOf(request[r]) \in {"add", "search", "update", "delete"}

C14_VendorRejectionBecomesAResult ==
    \A r \in Reqs :
        (RunsSingleCallOperation(r) /\ Len(calls[r]) = 1 /\ CallRejected(r, 1)) =>
            /\ pc[r] = "done"
            /\ result[r] = Some([success |-> FALSE, error |-> RejectionMessage(r, 1)])
            /\ Get(calls[r][1].outcome).error.isError
                   => Get(result[r]).error = Get(calls[r][1].outcome).error.message
            /\ ~Get(calls[r][1].outcome).error.isError
                   => Get(result[r]).error = "Unknown error"

\* a single delete whose vendor call threw something that is no Error
C14_Witness ==
    \E r \in Reqs :
        /\ RunsSingleCallOperation(r)
        /\ branchOf(request[r]) = "delete"
        /\ CallRejected(r, 1)
        /\ ~Get(calls[r][1].outcome).error.isError
        /\ result[r] = Some([success |-> FALSE, error |-> "Unknown error"])

(***************************************************************************)
(* Invocations that end without reaching the adapter.                      *)
(***************************************************************************)
\* r ended with this error-flagged text and called no adapter operation
RefusedWith(r, text) ==
    /\ pc[r] = "done"
    /\ calls[r] = <<>>
    /\ result[r] = None
    /\ RespondedWith(r, text, TRUE)

(***************************************************************************)
(* C15  (as claimed) A malformed request never reaches the adapter: an     *)
(* invocation with args absent returns the error-flagged text 'Error: No   *)
(* arguments provided', and an invocation with a name other than the four  *)
(* tool names returns the error-flagged text 'Unknown tool: <name>'; in    *)
(* both cases no adapter operation is called.                              *)
(***************************************************************************)
C15_Claimed_MalformedRequests ==
    \A r \in Reqs :
        Invoked(r) =>
            /\ (request[r].arguments = None)
                   => RefusedWith(r, <<"Error: ", "No arguments provided">>)
            /\ (request[r].name \notin ToolNames)
                   => RefusedWith(r, <<"Unknown tool: ", request[r].name>>)

(***************************************************************************)
(* C15  (amended) A malformed request never reaches the adapter.  The      *)
(* arguments are checked before the name: an invocation with args absent   *)
(* returns the error-flagged text 'Error: No arguments provided' whatever  *)
(* its name, known or unknown; an invocation with args present and a name  *)
(* other than the four tool names returns the error-flagged text           *)
(* 'Unknown tool: <name>' containing that literal name.  In both cases no  *)
(* adapter operation is called.                                            *)
(***************************************************************************)
C15_MalformedRequests ==
    \A r \in Reqs :
        Invoked(r) =>
            /\ (request[r].arguments = None)
                   => RefusedWith(r, <<"Error: ", "No arguments provided">>)
            /\ (request[r].arguments # None /\ request[r].name \notin ToolNames)
                   => RefusedWith(r, <<"Unknown tool: ", request[r].name>>)

\* an unknown tool invoked without arguments is answered for its arguments
C15_Witness ==
    \E r \in Reqs :
        /\ request[r] = [name |-> "memory_purge", arguments |-> None]
        /\ RefusedWith(r, <<"Error: ", "No arguments provided">>)

(***************************************************************************)
(* The paths of a confirmed memory_delete.                                 *)
(***************************************************************************)
\* r is a memory_delete invocation whose confirm is the boolean true
ConfirmedDelete(r) ==
    /\ InvokedWith(r, "memory_delete")
    /\ ArgsOf(r).confirm = [type |-> "boolean", truthy |-> TRUE]

\* the single-delete path: one deleteMemory call, for memory_id and nothing else
SingleDeletePath(r) ==
    /\ Len(calls[r]) = 1
    /\ calls[r][1].call = [op |-> "delete", memoryId |-> ArgsOf(r).memory_id[1]]
    /\ (pc[r] = "done") =>
            /\ result[r] # None
            /\ "deleted_count" \notin DOMAIN result[r][1]
            /\ ResponseText(r)[1] \in {"Memory ", "Failed to delete memory: "}

\* the bulk path: one deleteMemories call, over memory_ids
BulkDeletePath(r) ==
    LET ids == ArgsOf(r).memory_ids[1]
    IN  /\ Len(calls[r]) \in 1..Len(ids)
        /\ \A i \in 1..Len(calls[r]) :
              calls[r][i].call = [op |-> "delete", memoryId |-> ids[i]]
        /\ (pc[r] = "done") =>
                /\ Len(calls[r]) = Len(ids)
                /\ result[r] # None
                /\ "deleted_count" \in DOMAIN result[r][1]
                /\ ResponseText(r)[1] = "Deleted "

NonEmptyList(o) == o # None /\ o # Some(<<>>)

(***************************************************************************)
(* C16  (as claimed) A confirmed memory_delete takes exactly one of three  *)
(* paths: if memory_id is present, the single-delete path (one deleteMemory*)
(* call for memory_id, memory_ids being left alone even if supplied);      *)
(* otherwise if memory_ids is non-empty, the bulk path (one deleteMemories *)
(* call); otherwise the error-flagged text 'Either memory_id or memory_ids *)
(* must be provided' with no adapter call.                                 *)
(***************************************************************************)
C16_Claimed_DeletePaths ==
    \A r \in Reqs :
        ConfirmedDelete(r) =>
            IF ArgsOf(r).memory_id # None THEN SingleDeletePath(r)
            ELSE IF NonEmptyList(ArgsOf(r).memory_ids) THEN BulkDeletePath(r)
            ELSE RefusedWith(r, <<"Either memory_id or memory_ids must be provided">>)

(***************************************************************************)
(* C16  (amended) A confirmed memory_delete takes exactly one of three     *)
(* paths: if memory_id is a non-empty string, the single-delete path (one  *)
(* deleteMemory call for memory_id, memory_ids being ignored even if       *)
(* supplied); otherwise (memory_id absent or the empty string) if          *)
(* memory_ids is non-empty, the bulk path (one deleteMemories call);       *)
(* otherwise the error-flagged text 'Either memory_id or memory_ids must   *)
(* be provided' with no adapter call.                                      *)
(***************************************************************************)
C16_DeletePaths ==
    \A r \in Reqs :
        ConfirmedDelete(r) =>
            IF NonEmpty(ArgsOf(r).memory_id) THEN SingleDeletePath(r)
            ELSE IF NonEmptyList(ArgsOf(r).memory_ids) THEN BulkDeletePath(r)
            ELSE RefusedWith(r, <<"Either memory_id or memory_ids must be provided">>)

\* memory_id and memory_ids both supplied: only memory_id is deleted
C16_Witness ==
    \E r \in Reqs :
        /\ ConfirmedDelete(r)
        /\ ArgsOf(r).memory_id = Some("A")
        /\ ArgsOf(r).memory_ids = Some(<<"B", "C">>)
        /\ pc[r] = "done"
        /\ SingleDeletePath(r)
        /\ RespondedWith(r, <<"Memory ", "A", " deleted successfully">>, FALSE)

(***************************************************************************)
(* C17  If the confirm argument of a memory_delete invocation is not       *)
(* strictly the boolean true (absent, false, or any other value), the      *)
(* router short-circuits with the confirmation-required error and performs *)
(* no adapter call.                                                        *)
(***************************************************************************)
C17_OnlyBooleanTrueConfirms ==
    \A r \in Reqs :
        (InvokedWith(r, "memory_delete")
         /\ ArgsOf(r).confirm # [type |-> "boolean", truthy |-> TRUE])
            => RefusedWith(r, ConfirmationRequired)

(***************************************************************************)
(* C18  The list-operations handler returns exactly the four descriptors   *)
(* memory_add, memory_search, memory_update, memory_delete in that fixed   *)
(* order, whose required fields are [content], [query],                    *)
(* [memory_id, updates] and [] respectively; it returns the same catalog   *)
(* on every call, whatever invocations preceded it, and makes no adapter   *)
(* call.                                                                   *)
(***************************************************************************)
\* r holds a ListTools request
Listed(r) == request[r].name = "tools/list"

C18_ListToolsReturnsTheCatalog ==
    \A r \in Reqs :
        Listed(r) =>
            /\ pc[r] = "done"
            /\ calls[r] = <<>>
            /\ result[r] = None
            /\ response[r] = Some(Resolved([tools |->
                   << [name |-> "memory_add", required |-> <<"content">>],
                      [name |-> "memory_search", required |-> <<"query">>],
                      [name |-> "memory_update", required |-> <<"memory_id", "updates">>],
                      [name |-> "memory_delete", required |-> <<>>] >>]))

\* a ListTools request answered with four descriptors, the last requiring nothing
C18_Witness ==
    \E r \in Reqs :
        /\ Listed(r)
        /\ pc[r] = "done"
        /\ Len(Get(response[r]).value.tools) = 4
        /\ Get(response[r]).value.tools[4] = [name |-> "memory_delete", required |-> <<>>]

(***************************************************************************)
(* C19  addMemoryWithMetadata with no metadata omits the categories,       *)
(* filters and metadata keys from the outbound options entirely, which     *)
(* then carry only user_id.                                                *)
(***************************************************************************)
\* r is a memory_add invocation without a metadata argument that has issued
\* its remote add
AddWithoutMetadata(r) ==
    /\ InvokedWith(r, "memory_add")
    /\ ArgsOf(r).metadata = None
    /\ Len(calls[r]) = 1

NothingRuns ==
    \A r \in Reqs :
        /\ pc[r] = "idle"
        /\ calls[r] = <<>>
        /\ result[r] = None
        /\ response[r] = None

C20_NoCredentialNoAdapter ==
    /\ ~NonEmpty(env.MEM0_API_KEY) =>
            /\ mem0Client.thrown = Some([isError |-> TRUE,
                   message |-> "MEM0_API_KEY environment variable is required"])
            /\ mem0Client.client = None
            /\ ~mem0Client.constructed
    /\ (mem0Client.client = None) => NothingRuns

\* the process started without MEM0_API_KEY: the constructor threw
C20_Witness ==
    /\ env.MEM0_API_KEY = None
    /\ mem0Client.thrown # None
    /\ mem0Client.client = None
    /\ NothingRuns

(***************************************************************************)
(* C21  For every invocation that reaches the adapter, the response's      *)
(* isError flag is false exactly when the adapter reported success: add,   *)
(* update and single delete give isError = not success with the texts      *)
(* 'Memory added successfully with ID: <id>', 'Memory <id> updated         *)
(* successfully', 'Memory <id> deleted successfully'; bulk delete gives    *)
(* 'Deleted <n> memories successfully' with isError true iff at least one  *)
(* item failed.                                                            *)
(***************************************************************************)
\* r is a finished invocation to which an adapter operation returned a result
ReachedAdapter(r) ==
    /\ Invoked(r)
    /\ IsSome(request[r].arguments)
    /\ pc[r] = "done"
    /\ result[r] # None

C21_ErrorFlagMirrorsSuccess ==
    \A r \in Reqs :
        ReachedAdapter(r) =>
            LET res == result[r][1]
                resp == response[r][1].value
                text == resp.content[1].text
                branch == branchOf(request[r])
            IN  /\ resp.isError = ~res.success
                /\ (branch = "add" /\ res.success)
                       => text = <<"Memory added successfully with ID: ", res.id>>
                /\ (branch = "update" /\ res.success)
                       => text = <<"Memory ", ArgsOf(r).memory_id[1], " updated successfully">>
                /\ (branch = "delete" /\ res.success)
                       => text = <<"Memory ", ArgsOf(r).memory_id[1], " deleted successfully">>
                /\ (branch = "bulk")
                       => /\ SubSeq(text, 1, 3) = <<"Deleted ", ToString(res.deleted_count),
                                                     " memories successfully">>
                          /\ resp.isError = (\E i \in 1..Len(calls[r]) : CallRejected(r, i))

(***************************************************************************)
(* C22  searchMemoriesAdvanced builds the outbound filters only from       *)
(* sub-filters that are actually present (category, non-empty tags,        *)
(* importance_min, and date_range mapped to created_at {$gte: start,       *)
(* $lte: end}); when filters is absent or no sub-filter is populated, the  *)
(* outbound options have no filters key at all.                            *)
(***************************************************************************)
\* the outbound filters the claim describes for a filters argument: a key for
\* each populated sub-filter (a non-empty category, a non-empty tags list, a
\* non-zero importance_min, a date_range), and no filters at all without one
PopulatedFilters(filters) ==
    LET f == IF filters = None THEN NoFilters ELSE filters[1]
        populated ==
            [category |-> IF NonEmpty(f.category) THEN f.category ELSE None,
             tags |-> IF NonEmptyList(f.tags) THEN f.tags ELSE None,
             importance_min |-> IF f.importance_min \notin {None, Some(0)}
                                THEN f.importance_min ELSE None,
             created_at |-> IF f.date_range # None
                            THEN Some([gte |-> f.date_range[1].start,
                                       lte |-> f.date_range[1].end])
                            ELSE None]
    IN  IF \A k \in DOMAIN populated : populated[k] = None THEN None ELSE Some(populated)

\* the filters key of the remote search call of r
SentFilters(r) == calls[r][1].call.options.filters

C22_FiltersOnlyFromPresentSubFilters ==
    \A r \in Reqs :
        SearchIssued(r) =>
            /\ SentFilters(r) = PopulatedFilters(ArgsOf(r).filters)
            /\ (ArgsOf(r).filters = None) => SentFilters(r) = None
            /\ (SentFilters(r) # None) =>
                   LET in == ArgsOf(r).filters[1]
                       out == SentFilters(r)[1]
                   IN  /\ out.category # None => in.category = out.category
                       /\ out.tags # None => (in.tags = out.tags /\ Len(out.tags[1]) > 0)
                       /\ out.importance_min # None => in.importance_min = out.importance_min
                       /\ out.created_at # None => in.date_range # None
                       /\ \E k \in DOMAIN out : out[k] # None

\* a filters argument with importance_min alone gives filters with that key alone
C22_Witness ==
    \E r \in Reqs :
        /\ SearchIssued(r)
        /\ ArgsOf(r).filters = Some([NoFilters EXCEPT !.importance_min = Some(7)])
        /\ SentFilters(r) = Some([category |-> None, tags |-> None,
                                  importance_min |-> Some(7), created_at |-> None])

(***************************************************************************)
(* C23  When the remote search returns a non-array value or an empty       *)
(* array, searchMemoriesAdvanced returns {success: true, results: []} and  *)
(* the memory_search response is the literal text 'No memories found' with *)
(* isError false.                                                          *)
(***************************************************************************)
\* the remote search of r resolved with something that holds no result
SearchFoundNothing(r) ==
    /\ InvokedWith(r, "memory_search")
    /\ Len(calls[r]) = 1
    /\ CallResolved(r, 1)
    /\ LET value == calls[r][1].outcome[1].value
       IN  ~value.isArray \/ value.items = <<>>

C23_NothingFound ==
    \A r \in Reqs :
        SearchFoundNothing(r) =>
            /\ pc[r] = "done"
            /\ result[r] = Some([success |-> TRUE, results |-> <<>>])
            /\ RespondedWith(r, <<"No memories found">>, FALSE)

\* an importance-sorted search whose remote call resolved with no array
C23_Witness ==
    \E r \in Reqs :
        /\ SearchFoundNothing(r)
        /\ ArgsOf(r).sort = Some("importance")
        /\ ~calls[r][1].outcome[1].value.isArray
        /\ RespondedWith(r, <<"No memories found">>, FALSE)

(***************************************************************************)
(* C24  updateMemory issues exactly one remote update call per invocation, *)
(* whose patch contains text = updates.content only when content is        *)
(* present and metadata = updates.metadata only when metadata is present;  *)
(* fields absent from updates are omitted from the patch, and with no      *)
(* updates the patch is the empty object.                                  *)
(***************************************************************************)
\* the patch without any field
EmptyPatch == [text |-> None, metadata |-> None]

\* r is a memory_update invocation (it issues its remote call at once)
Updating(r) == InvokedWith(r, "memory_update")

C24_UpdatePatch ==
    \A r \in Reqs :
        Updating(r) =>
            LET updates == ArgsOf(r).updates
                patch == calls[r][1].call.data
            IN  /\ Len(calls[r]) = 1
                /\ calls[r][1].call.op = "update"
                /\ calls[r][1].call.memoryId = ArgsOf(r).memory_id[1]
                /\ (updates = None) => patch = EmptyPatch
                /\ (updates # None) =>
                       /\ patch.text # None => patch.text = updates[1].content
                       /\ patch.metadata # None => patch.metadata = updates[1].metadata
                       /\ NonEmpty(updates[1].content) => patch.text = updates[1].content
                       /\ (updates[1].metadata # None) => patch.metadata = updates[1].metadata

\* an update of the content alone: the patch has text and no metadata
C24_Witness ==
    \E r \in Reqs :
        /\ Updating(r)
        /\ pc[r] = "done"
        /\ ArgsOf(r).updates = Some([content |-> Some("new text"), metadata |-> None])
        /\ Len(calls[r]) = 1
        /\ calls[r][1].call.data = [text |-> Some("new text"), metadata |-> None]

(***************************************************************************)
(* C25  Nothing is retried: each add, search, update and single-delete     *)
(* invocation issues at most one remote call, and after a remote failure   *)
(* no further remote call is made for that invocation before its error     *)
(* outcome is returned.                                                    *)
(***************************************************************************)
\* the one remote call of r has failed
SingleCallFailed(r) ==
    /\ RunsSingleCallOperation(r)
    /\ Len(calls[r]) = 1
    /\ CallRejected(r, 1)

\* at most one call, and a failed call is followed by the error outcome at once
AtMostOneCall ==
    \A r \in Reqs :
        RunsSingleCallOperation(r) =>
            /\ Len(calls[r]) <= 1
            /\ SingleCallFailed(r) =>
                   /\ pc[r] = "done"
                   /\ result[r] # None /\ ~result[r][1].success
                   /\ response[r] # None /\ response[r][1].value.isError

\* a step of r after its remote call has settled issues no remote call: all the
\* step can do to the calls of r is to forget them when the response is sent
NoCallAfterSettledCall ==
    \A r \in Reqs :
        (RunsSingleCallOperation(r) /\ Len(calls[r]) = 1 /\ calls[r][1].outcome # None)
            => (calls'[r] = calls[r] \/ (calls'[r] = <<>> /\ pc'[r] = "idle"))

C25_NothingIsRetried == [](AtMostOneCall) /\ [][NoCallAfterSettledCall]_vars

\* a search whose remote call failed: one call, and the error outcome
C25_Witness ==
    \E r \in Reqs :
        /\ SingleCallFailed(r)
        /\ branchOf(request[r]) = "search"
        /\ RespondedWith(r, <<"Failed to search memories: ", "Memory not found">>, TRUE)

(***************************************************************************)
(* C26  The remote calls issued by deleteMemory, deleteMemories and        *)
(* updateMemory do not depend on the user id: two invocations that differ  *)
(* only in userId issue identical remote calls (delete with the memory id  *)
(* only, update with the memory id and patch only) and, given identical    *)
(* remote behaviour, return identical results.                             *)
(***************************************************************************)
\* a and b are memory_update or memory_delete invocations whose requests are
\* the same but for userId
DifferOnlyInUser(a, b) ==
    /\ InvokedWith(a, "memory_update") \/ InvokedWith(a, "memory_delete")
    /\ request[b].name = request[a].name
    /\ IsSome(request[b].arguments)
    /\ ArgsOf(a).userId # ArgsOf(b).userId
    /\ [ArgsOf(a) EXCEPT !.userId = None] = [ArgsOf(b) EXCEPT !.userId = None]

\* how the first n remote calls of r settled (None for one that has not)
OutcomesOf(r, n) == [i \in 1..n |-> calls[r][i].outcome]

ConstructedDefault ==
    IF NonEmpty(env.MEM0_USER_ID) THEN env.MEM0_USER_ID[1] ELSE "mcp-mem0-user"

\* in every state the defaults are the constructed ones, the catalog served is
\* TOOLS, and an invocation without userId carries the constructed default
DefaultsAsConstructed ==
    /\ mcpServer.constructed => mcpServer.defaultUserId = ConstructedDefault
    /\ mem0Client.constructed => mem0Client.defaultUserId = ConstructedDefault
    /\ \A r \in Reqs :
          /\ (Listed(r) /\ pc[r] = "done") => response[r] = Some(Resolved([tools |-> TOOLS]))
          /\ (Invoked(r) /\ IsSome(request[r].arguments) /\ ArgsOf(r).userId = None) =>
                 \A i \in 1..Len(calls[r]) :
                     CarriesUser(calls[r][i].call)
                         => calls[r][i].call.options.user_id = ConstructedDefault

\* no step changes the configuration or the two singletons
ConfigurationUntouched ==
    /\ env' = env
    /\ mcpServer' = mcpServer
    /\ mem0Client' = mem0Client

C27_StatelessPerCall == [](DefaultsAsConstructed) /\ [][ConfigurationUntouched]_vars

\* a search without userId, on a server configured with MEM0_USER_ID, carries
\* the configured id
C27_Witness ==
    \E r \in Reqs :
        /\ InvokedWith(r, "memory_search")
        /\ ArgsOf(r).userId = None
        /\ env.MEM0_USER_ID = Some("env-value")
        /\ Len(calls[r]) = 1
        /\ calls[r][1].call.options.user_id = "env-value"
        /\ mcpServer.defaultUserId = "env-value"

(***************************************************************************)
(* An invocation running alone.                                            *)
(***************************************************************************)
RECURSIVE runAlone(_, _, _, _, _)
\* the handler run for request req by itself, from a segment's end `step`, with
\* the remote calls it makes settling as `outcomes` say: the calls it has issued
\* and the end of its last segment
runAlone(req, step, fr, issued, outcomes) ==
    IF step.kind # "await"
    THEN [calls |-> issued, step |-> step]
    ELSE IF outcomes = <<>>
         THEN [calls |-> Append(issued, step.call), step |-> step]
         ELSE LET k == resume(req, fr, Head(outcomes))
              IN  runAlone(req, catchError(k.step), k.frame, Append(issued, step.call),
                           Tail(outcomes))

Alone(req, outcomes) ==
    runAlone(req, catchError(callToolBegin(req)), deleteMemoriesFrame, <<>>, outcomes)

\* the outcomes of the remote calls of r that have settled, in call order
SettledOutcomes(r) ==
    LET settled == SelectSeq(calls[r], LAMBDA c : c.outcome # None)
    IN  [i \in 1..Len(settled) |-> settled[i].outcome[1]]

(***************************************************************************)
(* C28  When several invoke requests are in flight at once with their      *)
(* remote calls interleaved in any order, each request's response is the   *)
(* one it would get running alone against the same remote answers, and     *)
(* every remote add or search call carries the user id resolved from its   *)
(* own request; no reachable interleaving mixes data of two requests.      *)
(***************************************************************************)
C28_PipelinedRequestsDoNotInterfere ==
    \A r \in Reqs :
        (Invoked(r) /\ IsSome(request[r].arguments)) =>
            LET alone == Alone(request[r], SettledOutcomes(r))
            IN  /\ [i \in 1..Len(calls[r]) |-> calls[r][i].call] = alone.calls
                /\ (pc[r] = "awaiting") => alone.step.kind = "await"
                /\ (pc[r] = "done") =>
                       /\ alone.step.kind = "return"
                       /\ response[r] = Some(Resolved(alone.step.response))
                /\ \A i \in 1..Len(calls[r]) :
                       CarriesUser(calls[r][i].call)
                           => calls[r][i].call.options.user_id = ExpectedUserId(r)

\* two bulk deletes in flight at once: one has answered, with one id deleted and
\* one failed, while the other still awaits its second delete
C28_Witness ==
    \E a, b \in Reqs :
        /\ a # b
        /\ InvokedWith(a, "memory_delete") /\ InvokedWith(b, "memory_delete")
        /\ ArgsOf(a).memory_ids = Some(<<"A", "B">>)
        /\ ArgsOf(b).memory_ids = Some(<<"A", "B">>)
        /\ pc[a] = "done"
        /\ CallRejected(a, 1) /\ CallResolved(a, 2)
        /\ RespondedWith(a, <<"Deleted ", "1", " memories successfully", "\nErrors: ",
                              "Failed to delete ", "A", ": ", "Memory not found">>, TRUE)
        /\ pc[b] = "awaiting"
        /\ Len(calls[b]) = 2
        /\ CallResolved(b, 1)

(***************************************************************************)
(* C29  If every remote call eventually completes (resolves or rejects),   *)
(* every invoke request eventually yields exactly one response, and a bulk *)
(* delete over n ids responds after exactly n remote delete calls; there   *)
(* is no timeout, so an invocation responds only after its outstanding     *)
(* remote call completes.                                                  *)
(***************************************************************************)
\* r has its response
Responded(r) == pc[r] = "done" /\ response[r] # None

\* a response is there exactly when the invocation has ended, and then every
\* remote call of the invocation has completed: n of them for a bulk delete
\* over n ids
RespondsOnlyWhenCallsCompleted ==
    \A r \in Reqs :
        (Invoked(r) /\ IsSome(request[r].arguments)) =>
            /\ (response[r] # None) <=> (pc[r] = "done")
            /\ (pc[r] = "done") => \A i \in 1..Len(calls[r]) : calls[r][i].outcome # None
            /\ (pc[r] = "awaiting") =>
                   /\ calls[r] # <<>>
                   /\ calls[r][Len(calls[r])].outcome = None
            /\ (pc[r] = "done" /\ branchOf(request[r]) = "bulk") =>
                   /\ Len(calls[r]) = Len(ArgsOf(r).memory_ids[1])
                   /\ \A i \in 1..Len(calls[r]) : calls[r][i].call.op = "delete"

\* the response of an invocation, once given, is not replaced by another one
OneResponse ==
    \A r \in Reqs :
        (response[r] # None) => (response'[r] = response[r] \/ pc'[r] = "idle")

C29_EveryRequestIsAnswered ==
    /\ [](RespondsOnlyWhenCallsCompleted)
    /\ [][OneResponse]_vars
    /\ \A r \in Reqs : (pc[r] = "awaiting") ~> Responded(r)

\* a bulk delete over two ids has responded, after its two deletes completed
C29_Witness ==
    \E r \in Reqs :
        /\ InvokedWith(r, "memory_delete")
        /\ branchOf(request[r]) = "bulk"
        /\ Responded(r)
        /\ Len(calls[r]) = 2
        /\ CallResolved(r, 1) /\ CallResolved(r, 2)
        /\ RespondedWith(r, <<"Deleted ", "2", " memories successfully">>, FALSE)

(***************************************************************************)
(* C30: addMemoryWithMetadata reports failure only when the remote add     *)
(* failed: whenever client.add resolves, the result is {success: true, id} *)
(* with id the vendor's id, or 'unknown' when the response has none, and   *)
(* no step after the call turns a completed add into {success: false}.     *)
(***************************************************************************)
AddSettled(r) == InvokedWith(r, "memory_add") /\ Len(calls[r]) = 1 /\ IsSome(result[r])

VendorId(r) == Get(calls[r][1].outcome).value.id

C30_SerialisableAddSucceeds ==
    \A r \in Reqs :
       (AddSettled(r) /\ CallResolved(r, 1)
           /\ ~IsSome(JSONstringifyThrows(Get(calls[r][1].outcome).value))) =>
          /\ Get(result[r]).success
          /\ Get(result[r]).id = (IF TruthyStr(VendorId(r)) THEN Get(VendorId(r)) ELSE "unknown")

\* a response without an id is stored under the literal 'unknown'
C30_UnknownIdReached ==
    \E r \in Reqs :
       /\ AddSettled(r) /\ CallResolved(r, 1)
       /\ VendorId(r) = None
       /\ result[r] = Some([success |-> TRUE, id |-> "unknown"])

====
